---------------------------- MODULE Spec2Model ----------------------------
(***************************************************************************)
(* Model of analyze_winter_air.py: winter AQI reconstruction, station and  *)
(* city aggregation, ranking and map features.                             *)
(*                                                                         *)
(* Numbers: a Python float is modelled as an exact rational <<num, den>>   *)
(* with den > 0, in lowest terms: the rounding of a double's 53-bit        *)
(* significand is not modelled, and the readings of the checked instances  *)
(* are integers, as AQI readings are.  None is the empty tuple <<>>, and   *)
(* float("nan") is <<0, 0>>.  A Python dict is the sequence of its         *)
(* <<key, value>> pairs in insertion order.                                *)
(***************************************************************************)
EXTENDS Integers, Sequences, FiniteSets, TLC

VARIABLES
    pc,             \* position of the run in main()
    values,         \* interpolate_series: the argument
    result,         \* interpolate_series: the returned list
    station_meta,   \* main: station_meta, dict code -> [name.., city, lat, lon]
    header,         \* main: header[3:] of the first data file
    station_codes,  \* main: station_codes
    input_series,   \* the series as build_time_series returned it (history)
    timestamps,     \* build_time_series: timestamps
    series,         \* build_time_series / compute_station_means: series
    cols,           \* build_time_series: cols of the file being read
    files_left,     \* build_time_series: files of data_files not yet opened
    last_row,       \* build_time_series: the row read last from the open file
    abort,          \* "none", or the exception that ended the run
    station_means,  \* main: station_means
    city_means,     \* main: city_means
    coords,         \* main: coords
    ranking,        \* save_ranking: the rows written after the title row
    features        \* generate_map: features

vars == <<pc, values, result, station_meta, header, station_codes,
          input_series, timestamps, series, cols, files_left, last_row,
          abort, station_means, city_means, coords, ranking, features>>

interpVars == <<values, result>>
metaVars == <<station_meta, header, station_codes>>
buildVars == <<timestamps, series, cols, files_left, last_row, abort>>
coreVars == <<station_means, city_means, coords, ranking, features>>

---------------------------------------------------------------------------
(* Bounds of the checked instances *)

\* longest series given to interpolate_series in SpecInterp
MaxLen == 5
\* known readings range over 0 .. MaxVal in SpecInterp
MaxVal == 2
\* most cells (hours times tracked stations) of the series in Spec
MaxCells == 8
\* most rows read over all files in SpecBuild
MaxRows == 2
\* most data files in SpecBuild
MaxFiles == 2

---------------------------------------------------------------------------
(* Python values *)

None == <<>>
NaN == <<0, 0>>

IsNone(v) == v = None
IsNaN(v) == v = NaN

Abs(n) == IF n < 0 THEN -n ELSE n

RECURSIVE GCD(_, _)
GCD(a, b) == IF b = 0 THEN a ELSE GCD(b, a % b)

\* the rational n / d in lowest terms with a positive denominator; NaN for
\* d = 0, which is what every operation on a NaN operand comes to
Norm(n, d) ==
    IF d = 0 THEN NaN
    ELSE LET s == IF d < 0 THEN -1 ELSE 1
             g == GCD(Abs(n), Abs(d))
         IN  <<(s * n) \div g, (s * d) \div g>>

\* float("<digits>") of an integer literal
Float(n) == <<n, 1>>

RAdd(a, b) == Norm(a[1] * b[2] + b[1] * a[2], a[2] * b[2])
RSub(a, b) == Norm(a[1] * b[2] - b[1] * a[2], a[2] * b[2])
RMul(a, b) == Norm(a[1] * b[1], a[2] * b[2])
\* a / b for b # 0
RDiv(a, b) == Norm(a[1] * b[2], a[2] * b[1])
\* a comparison with NaN is False
RLe(a, b) == a[2] # 0 /\ b[2] # 0 /\ a[1] * b[2] <= b[1] * a[2]
RLt(a, b) == a[2] # 0 /\ b[2] # 0 /\ a[1] * b[2] < b[1] * a[2]

RECURSIVE RSum(_)
\* sum(xs) of a list of floats
RSum(xs) == IF xs = <<>> THEN Float(0) ELSE RAdd(xs[1], RSum(Tail(xs)))

\* a mean that forgets the division by the count
WrongMean(xs) == RSum(xs)

\* sum(xs) / len(xs)
Mean(xs) == RDiv(RSum(xs), Float(Len(xs)))

\* all sequences over S of length 0 .. n
SeqUpTo(S, n) == UNION {[1..k -> S] : k \in 0..n}

Range(s) == {s[i] : i \in 1..Len(s)}

---------------------------------------------------------------------------
(* dict: insertion-ordered pairs <<key, value>> *)

DictKeys(d) == {d[i][1] : i \in 1..Len(d)}
DictHas(d, k) == \E i \in 1..Len(d) : d[i][1] = k
DictGet(d, k) == d[CHOOSE i \in 1..Len(d) : d[i][1] = k][2]
\* d[k] = v: an existing key keeps its position, a new key goes last
DictSet(d, k, v) ==
    IF DictHas(d, k)
    THEN [i \in 1..Len(d) |-> IF d[i][1] = k THEN <<k, v>> ELSE d[i]]
    ELSE Append(d, <<k, v>>)

---------------------------------------------------------------------------
(* interpolate_series *)

RECURSIVE GapEnd(_, _)
\* the inner loop "while i < n and result[i] is None: i += 1" (i is 0-based)
GapEnd(res, i) ==
    IF i < Len(res) /\ IsNone(res[i + 1]) THEN GapEnd(res, i + 1) ELSE i

\* "for j in range(start, end): result[j] = v"
WrongFillConst(res, start, end, v) ==
    [j \in 1..Len(res) |-> IF j - 1 >= start /\ j - 1 < end - 1 THEN v ELSE res[j]]

FillConst(res, start, end, v) ==
    [j \in 1..Len(res) |-> IF j - 1 >= start /\ j - 1 < end THEN v ELSE res[j]]

\* "ratio = (offset + 1) / (gap + 1)"
WrongRatio(offset, gap) == Norm(offset + 1, gap)

Ratio(offset, gap) == Norm(offset + 1, gap + 1)

\* the loop "for offset in range(gap): result[start + offset] = ..."
FillLinear(res, start, end, prev_val, next_val) ==
    LET gap == end - start
    IN  [j \in 1..Len(res) |->
            IF j - 1 >= start /\ j - 1 < end
            THEN RAdd(prev_val,
                      RMul(RSub(next_val, prev_val), Ratio(j - 1 - start, gap)))
            ELSE res[j]]

\* a gap with no known value before it
WrongLeadingFill(res, start, end, prev_val, next_val) ==
    FillConst(res, start, end, Float(0))

LeadingFill(res, start, end, prev_val, next_val) ==
    FillConst(res, start, end, next_val)

\* one gap start .. end-1 of res, filled as lines 82-98 fill it
FillGap(res, start, end) ==
    LET n == Len(res)
        prev_val == IF start > 0 THEN res[start] ELSE None
        next_val == IF end < n THEN res[end + 1] ELSE None
    IN  IF IsNone(prev_val) /\ IsNone(next_val) THEN res
        ELSE IF IsNone(prev_val)
             THEN LeadingFill(res, start, end, prev_val, next_val)
        ELSE IF IsNone(next_val) THEN FillConst(res, start, end, prev_val)
        ELSE FillLinear(res, start, end, prev_val, next_val)

RECURSIVE InterpFrom(_, _)
\* the outer loop "while i < n" from index i (0-based) on
InterpFrom(res, i) ==
    IF i >= Len(res) THEN res
    ELSE IF IsNone(res[i + 1])
         THEN LET end == GapEnd(res, i)
              IN  InterpFrom(FillGap(res, i, end), end)
         ELSE InterpFrom(res, i + 1)

interpolate_series(vals) == InterpFrom(vals, 0)

---------------------------------------------------------------------------
(* SpecInterp: interpolate_series on every series of the bounded domain *)

Readings == {Float(v) : v \in 0..MaxVal}
Cells == Readings \cup {None}

Idle ==
    /\ station_meta = <<>> /\ header = <<>> /\ station_codes = <<>>
    /\ input_series = <<>> /\ timestamps = <<>> /\ series = <<>>
    /\ cols = <<>> /\ files_left = <<>> /\ last_row = <<>> /\ abort = "none"
    /\ station_means = <<>> /\ city_means = <<>> /\ coords = <<>>
    /\ ranking = <<>> /\ features = <<>>

InitInterp ==
    /\ pc = "call"
    /\ values \in SeqUpTo(Cells, MaxLen)
    /\ result = <<>>
    /\ Idle

Interpolate ==
    /\ pc = "call"
    /\ result' = interpolate_series(values)
    /\ pc' = "returned"
    /\ UNCHANGED <<values, metaVars, input_series, buildVars, coreVars>>

NextInterp == Interpolate

SpecInterp == InitInterp /\ [][NextInterp]_vars

HasKnown(s) == \E i \in 1..Len(s) : ~IsNone(s[i])

\* the nearest known position before / after position k of s (0 if none)
PrevKnown(s, k) ==
    IF \E p \in 1..(k - 1) : ~IsNone(s[p])
    THEN CHOOSE p \in 1..(k - 1) :
            ~IsNone(s[p]) /\ \A q \in (p + 1)..(k - 1) : IsNone(s[q])
    ELSE 0
NextKnown(s, k) ==
    IF \E p \in (k + 1)..Len(s) : ~IsNone(s[p])
    THEN CHOOSE p \in (k + 1)..Len(s) :
            ~IsNone(s[p]) /\ \A q \in (k + 1)..(p - 1) : IsNone(s[q])
    ELSE 0

\* C1: a series with at least one known value comes back with the same
\* length and no missing position, wherever its gaps are.
C1_FullReconstruction ==
    (pc = "returned" /\ HasKnown(values)) =>
        /\ Len(result) = Len(values)
        /\ \A i \in 1..Len(result) : ~IsNone(result[i])

\* a series with a leading, an interior and a trailing gap has been filled
C1_Witness ==
    /\ pc = "returned"
    /\ Len(values) = 5
    /\ IsNone(values[1]) /\ ~IsNone(values[2]) /\ IsNone(values[3])
    /\ ~IsNone(values[4]) /\ IsNone(values[5])
    /\ \A i \in 1..5 : ~IsNone(result[i])

\* C2: a position at offset o of a gap of length g between known prev and
\* next (input values) gets prev + (next - prev) * (o + 1) / (g + 1).
C2_LinearFormula ==
    pc = "returned" =>
        \A k \in 1..Len(values) :
            LET p == PrevKnown(values, k)
                q == NextKnown(values, k)
            IN  (IsNone(values[k]) /\ p > 0 /\ q > 0) =>
                    /\ k <= Len(result)
                    /\ result[k] =
                         RAdd(values[p],
                              Norm((values[q][1] - values[p][1]) * (k - p),
                                   q - p))

\* [1, None, None, 2] with a gap of length 2: thirds, not integers
C2_Witness ==
    /\ pc = "returned"
    /\ values = <<Float(1), None, None, Float(2)>>
    /\ result = <<Float(1), <<4, 3>>, <<5, 3>>, Float(2)>>

\* C3: a leading gap takes the first known value after it and a trailing
\* gap the last known value before it (constant fill).
C3_ConstantEdges ==
    (pc = "returned" /\ HasKnown(values)) =>
        \A k \in 1..Len(values) :
            LET p == PrevKnown(values, k)
                q == NextKnown(values, k)
            IN  /\ (IsNone(values[k]) /\ p = 0) =>
                        (k <= Len(result) /\ result[k] = values[q])
                /\ (IsNone(values[k]) /\ q = 0) =>
                        (k <= Len(result) /\ result[k] = values[p])

\* two different known values, a leading and a trailing gap of length 2
C3_Witness ==
    /\ pc = "returned"
    /\ values = <<None, None, Float(1), Float(2), None>>
    /\ result = <<Float(1), Float(1), Float(1), Float(2), Float(2)>>

---------------------------------------------------------------------------
(* main: the stations of the first file's header that the metadata knows *)

\* tracking every station of the metadata instead of the header's
WrongStationCodes(hdr, meta) == [i \in 1..Len(meta) |-> meta[i][1]]

\* "station_codes = [c for c in header[3:] if c in station_meta]"
StationCodes(hdr, meta) == SelectSeq(hdr, LAMBDA c : DictHas(meta, c))

RECURSIVE EmptySeries(_)
\* "series = {code: [] for code in station_codes}"
EmptySeries(codes) ==
    IF codes = <<>> THEN <<>>
    ELSE DictSet(EmptySeries(SubSeq(codes, 1, Len(codes) - 1)),
                 codes[Len(codes)], <<>>)

---------------------------------------------------------------------------
(* compute_station_means *)

NotNone(v) == ~IsNone(v)

\* a mean that counts the missing positions as readings of 0
WrongStationMean(vals) ==
    LET cleaned == interpolate_series(vals)
    IN  IF cleaned # <<>>
        THEN Mean([i \in 1..Len(cleaned) |->
                     IF IsNone(cleaned[i]) THEN Float(0) ELSE cleaned[i]])
        ELSE NaN

\* "sum(numeric) / len(numeric) if numeric else float('nan')"
StationMean(vals) ==
    LET cleaned == interpolate_series(vals)
        numeric == SelectSeq(cleaned, NotNone)
    IN  IF numeric # <<>> THEN Mean(numeric) ELSE NaN

\* the returned dict "means"
compute_station_means(ser) ==
    [i \in 1..Len(ser) |-> <<ser[i][1], StationMean(ser[i][2])>>]

\* the argument after the call: "series[code] = cleaned"
CleanedSeries(ser) ==
    [i \in 1..Len(ser) |-> <<ser[i][1], interpolate_series(ser[i][2])>>]

---------------------------------------------------------------------------
(* aggregate_city_means *)

\* a station that misses the "math.isnan(mean_val)" test
WrongSkipStation(meta, code, mean_val) == ~DictHas(meta, code)

\* "if not meta or math.isnan(mean_val): continue"
SkipStation(meta, code, mean_val) == ~DictHas(meta, code) \/ IsNaN(mean_val)

RECURSIVE CityValues(_, _)
\* the dict city_values after the loop over station_means.items()
CityValues(means, meta) ==
    IF means = <<>> THEN <<>>
    ELSE LET d == CityValues(SubSeq(means, 1, Len(means) - 1), meta)
             code == means[Len(means)][1]
             mean_val == means[Len(means)][2]
         IN  IF SkipStation(meta, code, mean_val) THEN d
             ELSE LET city == DictGet(meta, code).city
                  IN  DictSet(d, city,
                              Append(IF DictHas(d, city) THEN DictGet(d, city)
                                     ELSE <<>>, mean_val))

\* "{city: sum(vals) / len(vals) for city, vals in city_values.items() if vals}"
aggregate_city_means(means, meta) ==
    LET cv == SelectSeq(CityValues(means, meta), LAMBDA e : e[2] # <<>>)
    IN  [i \in 1..Len(cv) |-> <<cv[i][1], Mean(cv[i][2])>>]

---------------------------------------------------------------------------
(* city_coordinates *)

RECURSIVE CityCoordLists(_)
\* the dict coords after the loop over station_meta.values()
CityCoordLists(meta) ==
    IF meta = <<>> THEN <<>>
    ELSE LET d == CityCoordLists(SubSeq(meta, 1, Len(meta) - 1))
             m == meta[Len(meta)][2]
         IN  DictSet(d, m.city,
                     Append(IF DictHas(d, m.city) THEN DictGet(d, m.city)
                            ELSE <<>>, <<Float(m.lat), Float(m.lon)>>))

city_coordinates(meta) ==
    LET cl == SelectSeq(CityCoordLists(meta), LAMBDA e : e[2] # <<>>)
    IN  [i \in 1..Len(cl) |->
            <<cl[i][1],
              <<Mean([j \in 1..Len(cl[i][2]) |-> cl[i][2][j][1]]),
                Mean([j \in 1..Len(cl[i][2]) |-> cl[i][2][j][2]])>>>>]

---------------------------------------------------------------------------
(* save_ranking *)

\* an insertion that puts an item before the items of equal value
WrongInsertByValue(sorted, item) ==
    LET k == Cardinality({i \in 1..Len(sorted) : RLt(sorted[i][2], item[2])})
    IN  SubSeq(sorted, 1, k) \o <<item>> \o SubSeq(sorted, k + 1, Len(sorted))

\* item goes after every item already placed whose value is <= its own
InsertByValue(sorted, item) ==
    LET k == Cardinality({i \in 1..Len(sorted) : RLe(sorted[i][2], item[2])})
    IN  SubSeq(sorted, 1, k) \o <<item>> \o SubSeq(sorted, k + 1, Len(sorted))

RECURSIVE SortedByValue(_)
\* "sorted(city_means.items(), key=lambda x: x[1])": a stable sort
SortedByValue(items) ==
    IF items = <<>> THEN <<>>
    ELSE InsertByValue(SortedByValue(SubSeq(items, 1, Len(items) - 1)),
                       items[Len(items)])

\* round(x, 2): to the nearest hundredth, a tie to the even one
Round2(x) ==
    LET q == (x[1] * 100) \div x[2]
        r == x[1] * 100 - q * x[2]
    IN  IF 2 * r < x[2] THEN Norm(q, 100)
        ELSE IF 2 * r > x[2] THEN Norm(q + 1, 100)
        ELSE IF q % 2 = 0 THEN Norm(q, 100) ELSE Norm(q + 1, 100)

\* the rows written after the title row: [idx, city, round(mean_val, 2)]
save_ranking(cm) ==
    LET rk == SortedByValue(cm)
    IN  [i \in 1..Len(rk) |-> <<i, rk[i][1], Round2(rk[i][2])>>]

---------------------------------------------------------------------------
(* generate_map *)

RECURSIVE RMin(_)
RMin(xs) ==
    IF Len(xs) = 1 THEN xs[1]
    ELSE LET m == RMin(Tail(xs)) IN IF RLe(xs[1], m) THEN xs[1] ELSE m

RECURSIVE RMax(_)
RMax(xs) ==
    IF Len(xs) = 1 THEN xs[1]
    ELSE LET m == RMax(Tail(xs)) IN IF RLe(m, xs[1]) THEN xs[1] ELSE m

\* int(x) of a float x >= 0
IntOf(x) == x[1] \div x[2]

\* the colour <<r, g, b>> that "#{r:02x}{g:02x}{b:02x}" prints
value_to_color(value, min_val, max_val) ==
    IF max_val = min_val THEN <<0, 255, 0>>
    ELSE LET r0 == RDiv(RSub(value, min_val), RSub(max_val, min_val))
             ratio == IF RLt(r0, Float(0)) THEN Float(0)
                      ELSE IF RLt(Float(1), r0) THEN Float(1) ELSE r0
         IN  <<IntOf(RMul(Float(255), ratio)),
               IntOf(RMul(Float(255), RSub(Float(1), ratio))), 0>>

generate_map(cm, crd) ==
    LET rk == SortedByValue(cm)
        vals == [i \in 1..Len(rk) |-> rk[i][2]]
        min_val == IF vals # <<>> THEN RMin(vals) ELSE Float(0)
        max_val == IF vals # <<>> THEN RMax(vals) ELSE Float(1)
        placed == SelectSeq(rk, LAMBDA e : DictHas(crd, e[1]))
    IN  [i \in 1..Len(placed) |->
            [city |-> placed[i][1],
             aqi |-> Round2(placed[i][2]),
             lat |-> DictGet(crd, placed[i][1])[1],
             lon |-> DictGet(crd, placed[i][1])[2],
             color |-> value_to_color(placed[i][2], min_val, max_val)]]

---------------------------------------------------------------------------
(* parse_datetime and build_time_series *)

WINTER_MONTHS == {1, 2, 11, 12}

\* a date field "YYYYMMDD" as its three numbers, an hour field as whether
\* int() accepts it and the number it gives
DateStr(y, m, d) == [y |-> y, m |-> m, d |-> d]
HourStr(isint, n) == [isint |-> isint, n |-> n]

\* whether int(hour_str) or strptime(..., "%Y%m%d%H") raises ValueError
DatetimeRaises(date_str, hour_str) ==
    \/ ~hour_str.isint
    \/ hour_str.n \notin 0..23
    \/ date_str.m \notin 1..12
    \/ date_str.d \notin 1..31

parse_datetime(date_str, hour_str) ==
    [y |-> date_str.y, m |-> date_str.m, d |-> date_str.d, h |-> hour_str.n]

\* float(value_str) of the cell texts of the model; None when it raises
ParseFloat(value_str) ==
    CASE value_str = "10" -> Float(10)
      [] value_str = "20" -> Float(20)
      [] OTHER -> None

\* value_str.strip() == ""
IsBlank(value_str) == value_str \in {"", " "}

\* lines 124-130: the value a cell text becomes
CellValue(value_str) ==
    IF IsBlank(value_str) THEN None ELSE ParseFloat(value_str)

\* "if len(row) < 3 or row[2] != "AQI": continue"
NotAQIRow(row) == row.len < 3 \/ row.name # "AQI"

\* a row at which float() is called outside the try
WrongRowRaises(row) ==
    /\ ~NotAQIRow(row)
    /\ \/ DatetimeRaises(row.date, row.hour)
       \/ \E i \in 1..Len(row.cells) :
            ~IsBlank(row.cells[i]) /\ IsNone(ParseFloat(row.cells[i]))

\* the row ends the run: parse_datetime raises and nothing catches it
RowRaises(row) == ~NotAQIRow(row) /\ DatetimeRaises(row.date, row.hour)

\* "if ts.month not in WINTER_MONTHS: continue"
RowSkipped(row) ==
    \/ NotAQIRow(row)
    \/ parse_datetime(row.date, row.hour).m \notin WINTER_MONTHS

RECURSIVE AppendRow(_, _, _, _)
\* the loop "for idx, code in enumerate(cols)" over the first k columns
AppendRow(ser, columns, row, k) ==
    IF k = 0 THEN ser
    ELSE LET d == AppendRow(ser, columns, row, k - 1)
             code == columns[k]
             value_str == IF k <= Len(row.cells) THEN row.cells[k] ELSE ""
         IN  IF ~DictHas(d, code) THEN d
             ELSE DictSet(d, code, Append(DictGet(d, code), CellValue(value_str)))

---------------------------------------------------------------------------
(* Spec: main from the returned series on, for every bounded set of series *)

Meta(city, lat, lon) == [city |-> city, lat |-> lat, lon |-> lon]

\* station metadata files: three stations of one city, or of three cities;
\* s4 is never a column of the data
MetaOneCity ==
    << <<"s1", Meta("X", 30, 100)>>, <<"s2", Meta("X", 32, 104)>>,
       <<"s3", Meta("X", 31, 102)>>, <<"s4", Meta("Z", 40, 116)>> >>
MetaCities ==
    << <<"s1", Meta("X", 30, 100)>>, <<"s2", Meta("Y", 23, 113)>>,
       <<"s3", Meta("Y", 22, 114)>>, <<"s4", Meta("Z", 40, 116)>> >>
Metas == {MetaOneCity, MetaCities}

\* station columns of the first data file; s9 is not in the metadata
Headers == {<<"s1", "s2", "s3">>, <<"s2", "s9", "s1">>}

AQIReadings == {Float(10), Float(20)}
AQICells == AQIReadings \cup {None}

\* the hours of n winter rows
Hours(n) == [i \in 1..n |-> [y |-> 2022, m |-> 1, d |-> 15, h |-> i - 1]]

Init ==
    /\ pc = "built"
    /\ values = <<>> /\ result = <<>>
    /\ station_meta \in Metas
    /\ header \in Headers
    /\ station_codes = StationCodes(header, station_meta)
    /\ \E n \in 0..MaxCells :
         /\ n * Len(EmptySeries(station_codes)) <= MaxCells
         /\ timestamps = Hours(n)
         /\ \E f \in [1..Len(EmptySeries(station_codes)) -> [1..n -> AQICells]] :
              series = [i \in 1..Len(EmptySeries(station_codes)) |->
                          <<EmptySeries(station_codes)[i][1], f[i]>>]
    /\ input_series = series
    /\ cols = <<>> /\ files_left = <<>> /\ last_row = <<>> /\ abort = "none"
    /\ station_means = <<>> /\ city_means = <<>> /\ coords = <<>>
    /\ ranking = <<>> /\ features = <<>>

\* main line 249
ComputeStationMeans ==
    /\ pc = "built"
    /\ station_means' = compute_station_means(series)
    /\ series' = CleanedSeries(series)
    /\ pc' = "means"
    /\ UNCHANGED <<interpVars, metaVars, input_series, timestamps, cols,
                   files_left, last_row, abort, city_means, coords, ranking,
                   features>>

\* main line 250
AggregateCityMeans ==
    /\ pc = "means"
    /\ city_means' = aggregate_city_means(station_means, station_meta)
    /\ pc' = "cities"
    /\ UNCHANGED <<interpVars, metaVars, input_series, buildVars,
                   station_means, coords, ranking, features>>

\* main line 251
CityCoordinates ==
    /\ pc = "cities"
    /\ coords' = city_coordinates(station_meta)
    /\ pc' = "coords"
    /\ UNCHANGED <<interpVars, metaVars, input_series, buildVars,
                   station_means, city_means, ranking, features>>

\* main line 253
SaveRanking ==
    /\ pc = "coords"
    /\ ranking' = save_ranking(city_means)
    /\ pc' = "ranked"
    /\ UNCHANGED <<interpVars, metaVars, input_series, buildVars,
                   station_means, city_means, coords, features>>

\* main line 254
GenerateMap ==
    /\ pc = "ranked"
    /\ features' = generate_map(city_means, coords)
    /\ pc' = "done"
    /\ UNCHANGED <<interpVars, metaVars, input_series, buildVars,
                   station_means, city_means, coords, ranking>>

Next ==
    \/ ComputeStationMeans
    \/ AggregateCityMeans
    \/ CityCoordinates
    \/ SaveRanking
    \/ GenerateMap

Spec == Init /\ [][Next]_vars

---------------------------------------------------------------------------
(* Claims about Spec *)

AfterMeans == pc \in {"means", "cities", "coords", "ranked", "done"}
AfterCities == pc \in {"cities", "coords", "ranked", "done"}
AfterRanking == pc \in {"ranked", "done"}

KnownOf(s) == SelectSeq(s, NotNone)

\* C4: a station's statistic is undefined exactly when its input series has
\* no known value; then its series stays all missing and the station is
\* still recorded, as undefined and not as 0; otherwise the statistic is
\* the mean of all values of the interpolated series; nothing is raised.
C4_UndefinedIffNoKnown ==
    AfterMeans =>
        /\ abort = "none"
        /\ Len(station_means) = Len(input_series)
        /\ \A i \in 1..Len(input_series) :
             LET code == input_series[i][1]
                 raw == input_series[i][2]
                 mean_val == station_means[i][2]
                 cleaned == DictGet(series, code)
             IN  /\ station_means[i][1] = code
                 /\ IsNaN(mean_val) <=> ~HasKnown(raw)
                 /\ ~HasKnown(raw) =>
                        /\ Len(cleaned) = Len(raw)
                        /\ \A k \in 1..Len(cleaned) : IsNone(cleaned[k])
                        /\ mean_val # Float(0)
                 /\ HasKnown(raw) =>
                        mean_val = Norm(RSum(cleaned)[1],
                                        RSum(cleaned)[2] * Len(cleaned))

\* an all-missing station beside a station with readings
C4_Witness ==
    /\ pc = "means"
    /\ \E i, j \in 1..Len(input_series) :
         /\ Len(input_series[i][2]) = 2
         /\ ~HasKnown(input_series[i][2])
         /\ IsNaN(station_means[i][2])
         /\ HasKnown(input_series[j][2])
         /\ station_means[j][2] = Float(15)

CityOf(code) == DictGet(station_meta, code).city

\* the defined statistics of the stations of a city, in station order
DefinedOf(city) ==
    LET es == SelectSeq(station_means,
                        LAMBDA e : /\ DictHas(station_meta, e[1])
                                   /\ CityOf(e[1]) = city
                                   /\ ~IsNaN(e[2]))
    IN  [i \in 1..Len(es) |-> es[i][2]]

AllCities == {station_meta[i][2].city : i \in 1..Len(station_meta)}

\* C5: a city is in the city statistics exactly when one of its stations
\* has a defined statistic, and its value is the unweighted mean of exactly
\* the defined statistics of its stations.
C5_CityMeanOfDefined ==
    AfterCities =>
        /\ DictKeys(city_means) \subseteq AllCities
        /\ Cardinality(DictKeys(city_means)) = Len(city_means)
        /\ \A city \in AllCities :
             LET d == DefinedOf(city)
             IN  /\ DictHas(city_means, city) <=> d # <<>>
                 /\ d # <<>> =>
                      DictGet(city_means, city) =
                          Norm(RSum(d)[1], RSum(d)[2] * Len(d))

\* A = 10, B = undefined, C = 20 in city X gives X = 15
C5_Witness ==
    /\ pc = "cities"
    /\ station_meta = MetaOneCity
    /\ station_means = << <<"s1", Float(10)>>, <<"s2", NaN>>, <<"s3", Float(20)>> >>
    /\ city_means = << <<"X", Float(15)>> >>

\* the position of the first station with a defined statistic of a city
FirstSeen(city) ==
    CHOOSE i \in 1..Len(station_means) :
        /\ DictHas(station_meta, station_means[i][1])
        /\ CityOf(station_means[i][1]) = city
        /\ ~IsNaN(station_means[i][2])
        /\ \A j \in 1..(i - 1) :
             ~(/\ DictHas(station_meta, station_means[j][1])
               /\ CityOf(station_means[j][1]) = city
               /\ ~IsNaN(station_means[j][2]))

\* C6: the ranking lists every city once, ascending by statistic, with rank
\* = 1-based position, and cities of equal statistic in the order in which
\* city aggregation first saw them.
C6_RankingOrder ==
    AfterRanking =>
        /\ Len(ranking) = Len(city_means)
        /\ {ranking[i][2] : i \in 1..Len(ranking)} = DictKeys(city_means)
        /\ \A i \in 1..Len(ranking) : ranking[i][1] = i
        /\ \A i, j \in 1..Len(ranking) :
             i < j =>
               LET vi == DictGet(city_means, ranking[i][2])
                   vj == DictGet(city_means, ranking[j][2])
               IN  /\ ranking[i][2] # ranking[j][2]
                   /\ RLe(vi, vj)
                   /\ vi = vj =>
                        FirstSeen(ranking[i][2]) < FirstSeen(ranking[j][2])

\* Y, seen first, ties with X and is ranked before it
C6_Witness ==
    /\ pc = "ranked"
    /\ Len(ranking) = 2
    /\ ranking[1][2] = "Y" /\ ranking[2][2] = "X"
    /\ ranking[1][1] = 1 /\ ranking[2][1] = 2
    /\ DictGet(city_means, "X") = DictGet(city_means, "Y")

\* the cities with a station among the station columns of the data
DataCities == {CityOf(c) : c \in {x \in Range(header) : DictHas(station_meta, x)}}

FeatureCities == {features[i].city : i \in 1..Len(features)}
RankedCities == {ranking[i][2] : i \in 1..Len(ranking)}

\* C9 as stated: a metadata city with no station among the data columns is
\* in no mapping of the run, the city coordinates included.
C9_AbsentFromEveryMapping ==
    pc = "done" =>
        \A city \in AllCities \ DataCities :
            /\ ~DictHas(city_means, city)
            /\ ~DictHas(coords, city)
            /\ city \notin RankedCities
            /\ city \notin FeatureCities

\* C9 amended: such a city is in neither the city statistics, the ranking
\* nor the map features; the city coordinates hold every city of the
\* metadata, this one included.
C9_AbsentFromOutputs ==
    pc = "done" =>
        /\ DictKeys(coords) = AllCities
        /\ \A city \in AllCities \ DataCities :
              /\ ~DictHas(city_means, city)
              /\ city \notin RankedCities
              /\ city \notin FeatureCities

\* Z has metadata only: it has coordinates, the ranked cities are others
C9_Witness ==
    /\ pc = "done"
    /\ "Z" \in AllCities \ DataCities
    /\ DictHas(coords, "Z")
    /\ ranking # <<>> /\ features # <<>>

Between(x, a, b) == (RLe(a, x) /\ RLe(x, b)) \/ (RLe(b, x) /\ RLe(x, a))

---------------------------------------------------------------------------
(* SpecBuild: the whole run, the data files read row by row *)

\* station columns of a data file
FileHeaders == {<<"s1", "s2">>, <<"s1">>, <<"s2", "s9", "s1">>}

CellTexts == {"", "n/a", "10"}
Dates == {DateStr(2022, 1, 15), DateStr(2022, 7, 15), DateStr(2022, 13, 1)}
HourTexts == {HourStr(TRUE, 5), HourStr(TRUE, 24), HourStr(FALSE, 0)}

\* the rows a file with these station columns may hold: full rows, rows one
\* value short, and rows of fewer than three fields
RowsFor(columns) ==
    [len : {3 + Len(columns)}, date : Dates, hour : HourTexts, name : {"AQI"},
     cells : [1..Len(columns) -> CellTexts]]
    \cup
    [len : {2 + Len(columns)}, date : Dates, hour : HourTexts, name : {"AQI"},
     cells : [1..(Len(columns) - 1) -> CellTexts]]
    \cup
    [len : {3}, date : Dates, hour : HourTexts, name : {"PM2.5"},
     cells : {<<>>}]
    \cup
    [len : {0, 2}, date : {DateStr(2022, 13, 1)}, hour : {HourStr(FALSE, 0)},
     name : {""}, cells : {<<>>}]

InitBuild ==
    /\ pc = "start"
    /\ values = <<>> /\ result = <<>>
    /\ station_meta = MetaCities
    /\ files_left \in SeqUpTo(FileHeaders, MaxFiles)
    /\ header = <<>> /\ station_codes = <<>>
    /\ input_series = <<>> /\ timestamps = <<>> /\ series = <<>>
    /\ cols = <<>> /\ last_row = <<>> /\ abort = "none"
    /\ station_means = <<>> /\ city_means = <<>> /\ coords = <<>>
    /\ ranking = <<>> /\ features = <<>>

\* main lines 239-240: no data file
NoDataFiles ==
    /\ pc = "start"
    /\ files_left = <<>>
    /\ pc' = "aborted"
    /\ abort' = "SystemExit"
    /\ UNCHANGED <<interpVars, metaVars, input_series, timestamps, series,
                   cols, files_left, last_row, coreVars>>

\* main lines 243-244 and build_time_series lines 105-106
ReadHeaderSample ==
    /\ pc = "start"
    /\ files_left # <<>>
    /\ header' = files_left[1]
    /\ station_codes' = StationCodes(header', station_meta)
    /\ timestamps' = <<>>
    /\ series' = EmptySeries(station_codes')
    /\ pc' = "files"
    /\ UNCHANGED <<interpVars, station_meta, input_series, cols, files_left,
                   last_row, abort, coreVars>>

\* build_time_series lines 108-112: the next file and its header
OpenFile ==
    /\ pc = "files"
    /\ files_left # <<>>
    /\ cols' = Head(files_left)
    /\ files_left' = Tail(files_left)
    /\ last_row' = <<>>
    /\ pc' = "rows"
    /\ UNCHANGED <<interpVars, metaVars, input_series, timestamps, series,
                   abort, coreVars>>

\* build_time_series lines 113-131: one row of the open file
ReadRow ==
    /\ pc = "rows"
    /\ Len(timestamps) < MaxRows
    /\ \E row \in RowsFor(cols) :
         /\ last_row' = row
         /\ IF RowRaises(row)
            THEN /\ pc' = "aborted"
                 /\ abort' = "ValueError"
                 /\ UNCHANGED <<timestamps, series>>
            ELSE IF RowSkipped(row)
            THEN UNCHANGED <<pc, abort, timestamps, series>>
            ELSE /\ timestamps' =
                      Append(timestamps, parse_datetime(row.date, row.hour))
                 /\ series' = AppendRow(series, cols, row, Len(cols))
                 /\ UNCHANGED <<pc, abort>>
    /\ UNCHANGED <<interpVars, metaVars, input_series, cols, files_left,
                   coreVars>>

\* the reader of the open file is exhausted
EndOfFile ==
    /\ pc = "rows"
    /\ pc' = "files"
    /\ UNCHANGED <<interpVars, metaVars, input_series, buildVars, coreVars>>

\* build_time_series line 132
ReturnSeries ==
    /\ pc = "files"
    /\ files_left = <<>>
    /\ input_series' = series
    /\ cols' = <<>>
    /\ last_row' = <<>>
    /\ pc' = "built"
    /\ UNCHANGED <<interpVars, metaVars, timestamps, series, files_left,
                   abort, coreVars>>

NextBuild ==
    \/ NoDataFiles
    \/ ReadHeaderSample
    \/ OpenFile
    \/ ReadRow
    \/ EndOfFile
    \/ ReturnSeries
    \/ ComputeStationMeans
    \/ AggregateCityMeans
    \/ CityCoordinates
    \/ SaveRanking
    \/ GenerateMap

SpecBuild == InitBuild /\ [][NextBuild]_vars

---------------------------------------------------------------------------
(* Claims about SpecBuild *)

\* C7: after build_time_series, whatever the headers and row lengths of the
\* files, every tracked station has one slot per collected row:
\* len(series[code]) = len(timestamps).
C7_OneSlotPerHour ==
    pc = "built" =>
        \A i \in 1..Len(series) : Len(series[i][2]) = Len(timestamps)

\* the timestamp of the row read last is well formed
WellFormedTime(row) ==
    /\ row.hour.isint
    /\ 0 <= row.hour.n /\ row.hour.n <= 23
    /\ 1 <= row.date.m /\ row.date.m <= 12
    /\ 1 <= row.date.d /\ row.date.d <= 31

===========================================================================
